---- MODULE Spec2Model ----
(***************************************************************************)
(* Verification model of the FPL gameweek acquisition scripts              *)
(*   src/api/gameweek25-26.py   (live API with archive fallback)           *)
(*   src/api/gameweek_data.py   (live API only)                            *)
(*                                                                         *)
(* Four specifications share this module, one per component:               *)
(*   SpecHttp     http_get, the retrying fetcher                           *)
(*   SpecRun      main of each script: metadata fetch, source selection,   *)
(*                per-period loop, archive fallback, exit status           *)
(*   SpecArchive  the archive branch of main over a file-system model      *)
(*   SpecRecon    flatten_live_to_rows / gw_live_to_rows                   *)
(* Every specification leaves the variables of the other components at     *)
(* their idle values.                                                      *)
(***************************************************************************)
EXTENDS Integers, Sequences, FiniteSets, TLC

(***************************************************************************)
(* State                                                                   *)
(***************************************************************************)
\* http_get
VARIABLES
    h_pc,          \* "loop" | "done": position in http_get
    max_retries,   \* the max_retries argument
    attempt,       \* the loop variable of `for attempt in range(1, max_retries + 1)`
    last_exc,      \* last_exc: None or the exception of the latest failed attempt
    issued,        \* the outcome of every requests.get issued so far, in order
    slept,         \* the argument of every time.sleep performed so far, in order
    h_ret          \* how the call ended: pending, a returned response, a raised error

httpVars == <<h_pc, max_retries, attempt, last_exc, issued, slept, h_ret>>

\* the reconcilers: one call and, on the same payload in mapping form, its twin
VARIABLES
    r_pc,         \* "call" | "twin" | "done"
    r_func,       \* the reconciler under study
    r_gw_json,    \* the raw period payload
    r_bootstrap,  \* the reference metadata
    r_clock,      \* datetime.utcnow() of the next call
    r_out         \* the results of the calls made so far, in order

reconVars == <<r_pc, r_func, r_gw_json, r_bootstrap, r_clock, r_out>>

\* the archive branch of main
VARIABLES
    a_pc,        \* "clone" | "locate" | "copied" | "not_copied" | "done"
    a_fs,        \* the local file system
    a_archive,   \* what `git clone` delivers when it succeeds
    a_clone_ok,  \* whether `git clone` succeeds
    a_before,    \* the file system when find_and_copy_season_from_clone was called
    a_located,   \* how find_and_copy_season_from_clone ended
    a_csv,       \* the names of the files in csv_dir
    a_end        \* "running" | "returned" | "raised": how main ended

archiveVars == <<a_pc, a_fs, a_archive, a_clone_ok, a_before, a_located, a_csv, a_end>>

\* main of either script
VARIABLES
    script,       \* which script runs
    pc,           \* position in main
    args,         \* the command line: start and end (gameweek_data.py)
    bootstrap,    \* the reference metadata, or None
    api_season,   \* the local api_season of gameweek25-26.py
    source,       \* "undecided" | "Live" | "Archive"
    decisions,    \* how often `api_season == TARGET_SEASON` was evaluated
    gw_ids,       \* the list the per-period loop iterates over
    gw_i,         \* how many loop iterations are complete
    attempted,    \* the periods the loop body has run for, in order
    outcomes,     \* per complete iteration: [failed, rows], whether the body
                  \* raised and how many rows were reconciled
    raw_files,    \* the periods whose event_<gw>_live.json exists
    csv_files,    \* the periods whose gw_<gw>_players.csv exists
    archive_out,  \* how the archive branch ended, with the csv names it copied
    run_end,      \* "running" | "returned" | "raised": how main ended
    exit_status   \* the exit status of the process, once main has ended

runVars == <<script, pc, args, bootstrap, api_season, source, decisions, gw_ids,
             gw_i, attempted, outcomes, raw_files, csv_files, archive_out, run_end, exit_status>>


(***************************************************************************)
(* Python values shared by the components                                  *)
(***************************************************************************)
\* An optional Python value is a sequence of length <= 1: None (a missing key
\* read with dict.get, or JSON null) is the empty sequence, a value v is <<v>>.
\* A Python string is the sequence of its tokens, so "" is <<>> and
\* concatenation is \o.
None == <<>>
Some(v) == <<v>>

\* truth value of an optional integer / an optional string (None, 0 and ""
\* are falsy)
TruthyInt(v) == v # None /\ v[1] # 0
TruthyStr(v) == v # None /\ v[1] # <<>>

\* truth value of an optional dict key (a field name, kept as one TLA+ string)
TruthyKey(v) == v # None /\ v[1] # ""

\* Python's `a or b` on optional integers
OrInt(a, b) == IF TruthyInt(a) THEN a ELSE b

RECURSIVE Pow2(_)
Pow2(n) == IF n <= 0 THEN 1 ELSE 2 * Pow2(n - 1)

RECURSIVE SeqToSet(_)
SeqToSet(s) == IF s = <<>> THEN {} ELSE {Head(s)} \cup SeqToSet(Tail(s))

(***************************************************************************)
(* http_get                                                                *)
(***************************************************************************)

\* largest retry budget explored (the default of the code is 3)
MaxBudget == 4

\* the ways one attempt can fail: requests.get raises (timeout, connection
\* error) or returns an error status and raise_for_status raises
FailureKinds == {"timeout", "connection_error", "http_error_status"}

\* `for attempt in range(1, max_retries + 1)`: the loop body runs for this attempt
LoopRunsOffByOne(a, n) == a <= n + 1
LoopRuns(a, n) == a <= n

\* `wait = 2 ** (attempt - 1)`
BackoffWait(a) == Pow2(a - 1)

\* `last_exc = None`
NoExc == [error |-> "None", attempt |-> 0]

HttpIdle ==
    /\ h_pc = "idle" /\ max_retries = 0 /\ attempt = 0 /\ last_exc = NoExc
    /\ issued = <<>> /\ slept = <<>> /\ h_ret = [kind |-> "pending"]

InitHttp ==
    /\ h_pc = "loop"
    /\ max_retries \in 1..MaxBudget
    /\ attempt = 1
    /\ last_exc = NoExc
    /\ issued = <<>>
    /\ slept = <<>>
    /\ h_ret = [kind |-> "pending"]

\* the try body succeeds: requests.get returns, raise_for_status passes, return r
HttpAttemptOk ==
    /\ h_pc = "loop"
    /\ LoopRuns(attempt, max_retries)
    /\ issued' = Append(issued, "ok")
    /\ h_ret' = [kind |-> "return", response |-> attempt]
    /\ h_pc' = "done"
    /\ UNCHANGED <<max_retries, attempt, last_exc, slept>>
    /\ UNCHANGED <<reconVars, archiveVars, runVars>>

\* the try body raises: the except handler records the error, sleeps the
\* backoff wait, and the loop moves to the next attempt
HttpAttemptFail ==
    /\ h_pc = "loop"
    /\ LoopRuns(attempt, max_retries)
    /\ \E k \in FailureKinds :
          /\ issued' = Append(issued, k)
          /\ last_exc' = [error |-> k, attempt |-> attempt]
    /\ slept' = Append(slept, BackoffWait(attempt))
    /\ attempt' = attempt + 1
    /\ UNCHANGED <<h_pc, max_retries, h_ret>>
    /\ UNCHANGED <<reconVars, archiveVars, runVars>>

\* the loop is exhausted: `raise last_exc`
HttpRaise ==
    /\ h_pc = "loop"
    /\ ~LoopRuns(attempt, max_retries)
    /\ h_ret' = [kind |-> "raise", exc |-> last_exc]
    /\ h_pc' = "done"
    /\ UNCHANGED <<max_retries, attempt, last_exc, issued, slept>>
    /\ UNCHANGED <<reconVars, archiveVars, runVars>>

NextHttp == HttpAttemptOk \/ HttpAttemptFail \/ HttpRaise

(***************************************************************************)
(* Schema reconciliation: flatten_live_to_rows (gameweek25-26.py) and       *)
(* gw_live_to_rows (gameweek_data.py)                                      *)
(*                                                                         *)
(* A raw entry is a record                                                 *)
(*   id, element : optional integers (the keys "id" and "element")         *)
(*   stats       : [shape, map, pairs], the key "stats":                   *)
(*                   shape "absent"  the key is missing (or null)          *)
(*                   shape "dict"    a flat mapping, `map`                 *)
(*                   shape "list"    a list of {identifier|name, value}    *)
(*                                   dicts, `pairs`                        *)
(*   top         : the statistic names present as top-level keys of the    *)
(*                 entry, with their values                                *)
(*   extra       : which of was_home, opponent_team, explain, multiplier   *)
(*                 are top-level keys of the entry                         *)
(* A mapping is a function from the names it holds to optional integers.   *)
(***************************************************************************)
\* GW_STAT_FIELDS of gameweek_data.py; the same 18 names are the statistic
\* fields of GW_FIELDS in gameweek25-26.py
GW_STAT_FIELDS ==
    << "minutes", "goals_scored", "assists", "clean_sheets", "goals_conceded",
       "own_goals", "penalties_saved", "penalties_missed", "yellow_cards",
       "red_cards", "saves", "bonus", "bps", "influence", "creativity",
       "threat", "ict_index", "total_points" >>

\* the statistic names as a set
StatFieldSet == SeqToSet(GW_STAT_FIELDS)

\* the fields of GW_FIELDS that flatten_live_to_rows fills from the metadata
\* (the tuple of names its loop over GW_FIELDS skips)
DESCRIPTIVE_FIELDS ==
    << "gw", "player_id", "player_name", "team_id", "team", "position_id",
       "position", "now_cost", "total_points_season", "selected_by_percent",
       "fetched_at" >>

\* GW_FIELDS of gameweek25-26.py, in header order
GW_FIELDS ==
    SubSeq(DESCRIPTIVE_FIELDS, 1, 10) \o GW_STAT_FIELDS \o <<"fetched_at">>

\* the keys of the baseline row of gw_live_to_rows
GD_BASE_FIELDS ==
    << "player_id", "player_name", "team_id", "team", "position_id", "position",
       "now_cost", "value_season", "total_points_season", "selected_by_percent",
       "gw", "fetched_at" >>

\* `("was_home", "opponent_team", "explain", "multiplier")`
GD_TOP_FIELDS == {"was_home", "opponent_team", "explain", "multiplier"}

\* dict.get(key) and dict.get(key, default) on a mapping
DictGet(m, k) == IF k \in DOMAIN m THEN m[k] ELSE None
DictGetOr(m, k, d) == IF k \in DOMAIN m THEN m[k] ELSE d

\* the empty dict {}
EmptyDict == [k \in {} |-> None]

\* `players_meta.get(player_id, {})`: the metadata record of the entity, or {}
\* (a record none of whose keys is present)
EmptyMeta ==
    [web_name |-> None, first_name |-> None, second_name |-> None,
     team |-> None, element_type |-> None, now_cost |-> None,
     value_season |-> None, total_points |-> None, selected_by_percent |-> None]
PlayersMetaGet(boot, player_id) ==
    IF player_id \in DOMAIN boot.elements
    THEN boot.elements[player_id] ELSE EmptyMeta

\* `teams_meta.get(team_id, {}).get("name") if team_id else None`
TeamName(boot, team_id) ==
    IF TruthyInt(team_id)
    THEN DictGet(boot.teams, team_id[1])
    ELSE None

\* `element_types.get(pos_id, {}).get("singular_name_short") if pos_id else None`
PositionName(boot, pos_id) ==
    IF TruthyInt(pos_id)
    THEN DictGet(boot.element_types, pos_id[1])
    ELSE None

\* `e.get("id") or e.get("element")`
PlayerId(e) == OrInt(e.id, e.element)

\* `gw_json.get("event") or gw_json.get("gameweek") or None`
GwId(gw_json) ==
    IF TruthyInt(gw_json.event) THEN gw_json.event
    ELSE IF TruthyInt(gw_json.gameweek) THEN gw_json.gameweek ELSE None

\* truth value of the "stats" value: a missing key, null, {} and [] are falsy
StatsTruthy(st) ==
    \/ st.shape = "dict" /\ DOMAIN st.map # {}
    \/ st.shape = "list" /\ st.pairs # <<>>

(* ---- flatten_live_to_rows --------------------------------------------- *)
\* `meta.get("web_name") or (meta.get("first_name", "") + " " + meta.get("second_name", ""))`
FlatDisplayName(meta) ==
    IF TruthyStr(meta.web_name) THEN meta.web_name
    ELSE Some( (IF meta.first_name = None THEN <<>> ELSE meta.first_name[1])
               \o <<" ">> \o
               (IF meta.second_name = None THEN <<>> ELSE meta.second_name[1]) )

\* `stats = e.get("stats") or {}` then `stats.get(fld, 0)` for every statistic
\* field: a list has no .get, so a non-empty list raises AttributeError
FlatStatsRaises(e) == StatsTruthy(e.stats) /\ e.stats.shape = "list"
FlatStat(e, fld) ==
    IF StatsTruthy(e.stats) THEN DictGetOr(e.stats.map, fld, Some(0)) ELSE Some(0)

\* the row dict built for one retained entry
FlatRow(e, gw_json, boot, now) ==
    LET player_id == PlayerId(e)
        meta == PlayersMetaGet(boot, player_id[1])
        stat == [f \in StatFieldSet |-> FlatStat(e, f)]
        base == [gw |-> GwId(gw_json),
                 player_id |-> player_id,
                 player_name |-> FlatDisplayName(meta),
                 team_id |-> meta.team,
                 team |-> TeamName(boot, meta.team),
                 position_id |-> meta.element_type,
                 position |-> PositionName(boot, meta.element_type),
                 now_cost |-> meta.now_cost,
                 total_points_season |-> meta.total_points,
                 selected_by_percent |-> meta.selected_by_percent,
                 fetched_at |-> Some(now)]
    IN  [f \in DOMAIN base \cup DOMAIN stat |->
            IF f \in DOMAIN base THEN base[f] ELSE stat[f]]

\* one iteration of `for e in elements` of flatten_live_to_rows
FlatEntry(e, gw_json, boot, now) ==
    IF PlayerId(e) = None THEN [kind |-> "skip"]
    ELSE IF FlatStatsRaises(e) THEN [kind |-> "raise", error |-> "AttributeError"]
    ELSE [kind |-> "row", row |-> FlatRow(e, gw_json, boot, now)]

(* ---- gw_live_to_rows --------------------------------------------------- *)
\* `meta.get("web_name") or meta.get("first_name") + " " + meta.get("second_name", "")`:
\* None + " " raises TypeError
GdDisplayNameRaises(meta) == ~TruthyStr(meta.web_name) /\ meta.first_name = None
GdDisplayName(meta) ==
    IF TruthyStr(meta.web_name) THEN meta.web_name
    ELSE Some( meta.first_name[1] \o <<" ">> \o
               (IF meta.second_name = None THEN <<>> ELSE meta.second_name[1]) )

\* the loop over a list-shaped stats value: `k = item.get("identifier") or
\* item.get("name")`, `v = item.get("value")`, `if k: s[k] = v`; a later item
\* overwrites an earlier one with the same key
RECURSIVE PairsToDict(_, _)
PairsToDict(pairs, s) ==
    IF pairs = <<>> THEN s
    ELSE LET item == Head(pairs)
             k == IF TruthyKey(item.identifier) THEN item.identifier ELSE item.name
         IN  PairsToDict(Tail(pairs),
                IF TruthyKey(k)
                THEN [n \in DOMAIN s \cup {k[1]} |->
                         IF n = k[1] THEN item.value ELSE s[n]]
                ELSE s)

\* `ele.get("stats") or ele.get("stats", {}) or {k: ele.get(k) for k in GW_STAT_FIELDS}`,
\* then the list shape is folded into a dict
GdStatsDict(e) ==
    IF StatsTruthy(e.stats)
    THEN IF e.stats.shape = "list" THEN PairsToDict(e.stats.pairs, EmptyDict)
         ELSE e.stats.map
    ELSE [k \in StatFieldSet |-> DictGet(e.top, k)]

\* the row dict built for one retained entry
GdRow(e, gw_json, boot, now) ==
    LET player_id == PlayerId(e)
        meta == PlayersMetaGet(boot, player_id[1])
        stats_dict == GdStatsDict(e)
        stat == [f \in StatFieldSet |-> DictGetOr(stats_dict, f, Some(0))]
        base == [player_id |-> player_id,
                 player_name |-> GdDisplayName(meta),
                 team_id |-> meta.team,
                 team |-> TeamName(boot, meta.team),
                 position_id |-> meta.element_type,
                 position |-> PositionName(boot, meta.element_type),
                 now_cost |-> meta.now_cost,
                 value_season |-> meta.value_season,
                 total_points_season |-> meta.total_points,
                 selected_by_percent |-> meta.selected_by_percent,
                 gw |-> OrInt(gw_json.event, GwId(gw_json)),
                 fetched_at |-> Some(now)]
        top == [f \in DOMAIN e.extra \cap GD_TOP_FIELDS |-> e.extra[f]]
    IN  [f \in DOMAIN base \cup DOMAIN stat \cup DOMAIN top |->
            IF f \in DOMAIN base THEN base[f]
            ELSE IF f \in DOMAIN stat THEN stat[f] ELSE top[f]]

\* one iteration of `for ele in elements` of gw_live_to_rows
GdEntry(e, gw_json, boot, now) ==
    IF PlayerId(e) = None THEN [kind |-> "skip"]
    ELSE IF GdDisplayNameRaises(PlayersMetaGet(boot, PlayerId(e)[1]))
         THEN [kind |-> "raise", error |-> "TypeError"]
    ELSE [kind |-> "row", row |-> GdRow(e, gw_json, boot, now)]

\* the reconciler of either script applied to one entry
ReconcileEntry(func, e, gw_json, boot, now) ==
    IF func = "flatten_live_to_rows"
    THEN FlatEntry(e, gw_json, boot, now)
    ELSE GdEntry(e, gw_json, boot, now)

\* a whole call: the rows in order, or the error of the first entry that raises
RECURSIVE ReconcileFrom(_, _, _, _, _, _)
ReconcileFrom(func, elements, gw_json, boot, now, rows) ==
    IF elements = <<>> THEN [kind |-> "return", rows |-> rows]
    ELSE LET r == ReconcileEntry(func, Head(elements), gw_json, boot, now)
         IN  IF r.kind = "raise" THEN [kind |-> "raise", error |-> r.error]
             ELSE ReconcileFrom(func, Tail(elements), gw_json, boot, now,
                                IF r.kind = "row" THEN Append(rows, r.row) ELSE rows)
Reconcile(func, gw_json, boot, now) ==
    ReconcileFrom(func, gw_json.elements, gw_json, boot, now, <<>>)

(* ---- the reconcilers as a state machine -------------------------------- *)

\* longest raw payload explored
MaxEntries == 2

Reconcilers == {"flatten_live_to_rows", "gw_live_to_rows"}

\* Reference metadata: entity 1 has every field, entity 2 lacks web_name,
\* second_name and element_type, entity 3 lacks web_name and first_name and
\* names a group that is not in the teams table; entities 0 and 9 are absent.
ReconBootstrap ==
    [elements |->
        (1 :> [web_name |-> Some(<<"Salah">>), first_name |-> Some(<<"Mohamed">>),
               second_name |-> Some(<<"Salah">>), team |-> Some(3),
               element_type |-> Some(2), now_cost |-> Some(125),
               value_season |-> Some(16), total_points |-> Some(200),
               selected_by_percent |-> Some(45)]) @@
        (2 :> [web_name |-> None, first_name |-> Some(<<"Erling">>),
               second_name |-> None, team |-> Some(3),
               element_type |-> None, now_cost |-> Some(140),
               value_season |-> None, total_points |-> Some(0),
               selected_by_percent |-> None]) @@
        (3 :> [web_name |-> None, first_name |-> None,
               second_name |-> Some(<<"Son">>), team |-> Some(7),
               element_type |-> Some(2), now_cost |-> None,
               value_season |-> None, total_points |-> None,
               selected_by_percent |-> None]),
     teams |-> (3 :> Some(<<"LIV">>)),
     element_types |-> (2 :> Some(<<"MID">>))]

\* assignments of values to statistic names: empty, one canonical name, two
\* canonical names, a null value with a name outside the canonical set
StatAssignments ==
    { EmptyDict,
      ("minutes" :> Some(90)),
      ("minutes" :> Some(90)) @@ ("goals_scored" :> Some(1)),
      ("bonus" :> None) @@ ("expected_goals" :> Some(7)) }

\* the sequences that list every element of the set S exactly once
RECURSIVE Orderings(_)
Orderings(S) ==
    IF S = {} THEN {<<>>}
    ELSE UNION { {<<x>> \o rest : rest \in Orderings(S \ {x})} : x \in S }

\* the {identifier|name, value} lists that state the assignment m: one item per
\* name, in any order, the name under "identifier" or under "name"
PairLists(m) ==
    { [i \in 1..Len(o) |->
          IF style = "identifier"
          THEN [identifier |-> Some(o[i]), name |-> None, value |-> m[o[i]]]
          ELSE [identifier |-> None, name |-> Some(o[i]), value |-> m[o[i]]]]
      : o \in Orderings(DOMAIN m), style \in {"identifier", "name"} }

\* the values of the "stats" key: missing, a flat mapping, or a list stating
\* the assignment `map`
StatsValues ==
    { [shape |-> "absent", map |-> EmptyDict, pairs |-> <<>>] }
    \cup { [shape |-> "dict", map |-> m, pairs |-> <<>>] : m \in StatAssignments }
    \cup UNION { { [shape |-> "list", map |-> m, pairs |-> l] : l \in PairLists(m) }
                 : m \in StatAssignments }

\* the (id, element) pairs explored
IdPairs ==
    { <<None, None>>, <<Some(0), None>>, <<None, Some(0)>>, <<Some(0), Some(2)>>,
      <<Some(1), None>>, <<None, Some(2)>>, <<Some(1), Some(2)>>,
      <<Some(3), None>>, <<Some(9), None>> }

\* raw entries: every identifier pair with one flat statistics mapping, and
\* every statistics value on a known and on an unknown entity
ReconEntries ==
    { [id |-> p[1], element |-> p[2],
       stats |-> [shape |-> "dict", map |-> ("minutes" :> Some(90)), pairs |-> <<>>],
       top |-> EmptyDict, extra |-> EmptyDict] : p \in IdPairs }
    \cup { [id |-> i, element |-> None, stats |-> st, top |-> EmptyDict,
            extra |-> EmptyDict] : i \in {Some(1), Some(9)}, st \in StatsValues }
    \cup { [id |-> Some(1), element |-> None,
            stats |-> [shape |-> "absent", map |-> EmptyDict, pairs |-> <<>>],
            top |-> ("minutes" :> Some(45)),
            extra |-> ("was_home" :> Some(1))] }

SeqsUpTo(S, n) == UNION { [1..k -> S] : k \in 0..n }

\* the same payload with every list-shaped statistics value replaced by the
\* flat mapping that states the same assignment
FlatTwin(gw_json) ==
    [gw_json EXCEPT !.elements =
        [i \in 1..Len(gw_json.elements) |->
            IF gw_json.elements[i].stats.shape = "list"
            THEN [gw_json.elements[i] EXCEPT !.stats.shape = "dict",
                                              !.stats.pairs = <<>>]
            ELSE gw_json.elements[i]]]

ReconIdle ==
    /\ r_pc = "idle" /\ r_func = "none" /\ r_clock = 0 /\ r_out = <<>>
    /\ r_gw_json = [event |-> None, gameweek |-> None, elements |-> <<>>]
    /\ r_bootstrap = ReconBootstrap

InitRecon ==
    /\ r_pc = "call"
    /\ r_func \in Reconcilers
    /\ r_gw_json \in [event : {None, Some(2)}, gameweek : {None, Some(5)},
                      elements : SeqsUpTo(ReconEntries, MaxEntries)]
    /\ r_bootstrap = ReconBootstrap
    /\ r_clock = 1
    /\ r_out = <<>>

\* the reconciler is called on the payload
ReconcileCall ==
    /\ r_pc = "call"
    /\ r_out' = Append(r_out, Reconcile(r_func, r_gw_json, r_bootstrap, r_clock))
    /\ r_clock' = r_clock + 1
    /\ r_pc' = "twin"
    /\ UNCHANGED <<r_func, r_gw_json, r_bootstrap>>
    /\ UNCHANGED <<httpVars, archiveVars, runVars>>

\* the reconciler is called, later, on the flat twin of the payload
ReconcileTwinCall ==
    /\ r_pc = "twin"
    /\ r_out' = Append(r_out, Reconcile(r_func, FlatTwin(r_gw_json), r_bootstrap, r_clock))
    /\ r_clock' = r_clock + 1
    /\ r_pc' = "done"
    /\ UNCHANGED <<r_func, r_gw_json, r_bootstrap>>
    /\ UNCHANGED <<httpVars, archiveVars, runVars>>

NextRecon == ReconcileCall \/ ReconcileTwinCall

(***************************************************************************)
(* The archive fallback of gameweek25-26.py over a model of the file       *)
(* system.  A path is the sequence of its components and a component (any  *)
(* Python string here) is the sequence of its tokens.  A file system is    *)
(* [dirs, files]: the directories that exist and the files, each           *)
(* [dir, name], that exist.                                                *)
(***************************************************************************)
\* TARGET_SEASON = "2025-26"
TARGET_SEASON == <<"2025", "-", "26">>
\* CLONE_DIR = "./_fpl_repo_clone"
CLONE_DIR == << <<"_fpl_repo_clone">> >>
\* csv_dir = ./output/<TARGET_SEASON>/csv
CSV_DIR == << <<"output">>, TARGET_SEASON, <<"csv">> >>

\* os.path.join(path, component, ...)
Join(path, comps) == path \o comps

\* str.replace(old, new) with one-token old; new = <<>> deletes it
RECURSIVE Replace(_, _, _)
Replace(str, old, new) ==
    IF str = <<>> THEN <<>>
    ELSE (IF Head(str) = old THEN new ELSE <<Head(str)>>) \o Replace(Tail(str), old, new)

\* str.lower(), token by token
LowerToken(t) ==
    CASE t = "GW_" -> "gw_"
      [] t = "GW" -> "gw"
      [] t = ".CSV" -> ".csv"
      [] OTHER -> t
Lower(str) == [i \in 1..Len(str) |-> LowerToken(str[i])]

\* str.startswith / str.endswith / `sub in str` for a one-token argument
StartsWith(str, tok) == Len(str) > 0 /\ str[1] = tok
EndsWith(str, tok) == Len(str) > 0 /\ str[Len(str)] = tok
\* "gw" occurs in the text of the tokens "gw" and "gw_" only
ContainsGw(str) == \E i \in 1..Len(str) : str[i] \in {"gw", "gw_"}

IsPrefix(p, q) == Len(p) <= Len(q) /\ SubSeq(q, 1, Len(p)) = p

\* os.path.exists(path)
Exists(fs, path) == path \in fs.dirs

\* shutil.rmtree(path): the directory and everything under it
RmTree(fs, path) ==
    [dirs |-> {d \in fs.dirs : ~IsPrefix(path, d)},
     files |-> {f \in fs.files : ~IsPrefix(path, f.dir)}]

\* the path q, which lies under src, re-rooted under dst
ReRoot(q, src, dst) == dst \o SubSeq(q, Len(src) + 1, Len(q))

\* shutil.copytree(src, dst) of an existing src to a missing dst
CopyTree(fs, src, dst) ==
    [dirs |-> fs.dirs \cup {ReRoot(d, src, dst) : d \in {x \in fs.dirs : IsPrefix(src, x)}},
     files |-> fs.files \cup
               {[dir |-> ReRoot(f.dir, src, dst), name |-> f.name]
                   : f \in {x \in fs.files : IsPrefix(src, x.dir)}}]

\* clone_repo: nothing when dest exists, else `git clone`, which either
\* creates the archive content or fails (check_call raises)
CloneRepo(fs, archive, clone_ok) ==
    IF Exists(fs, CLONE_DIR) THEN [raised |-> FALSE, fs |-> fs]
    ELSE IF clone_ok
         THEN [raised |-> FALSE,
               fs |-> [dirs |-> fs.dirs \cup archive.dirs,
                       files |-> fs.files \cup archive.files]]
         ELSE [raised |-> TRUE, fs |-> fs]

\* the `candidates` list of find_and_copy_season_from_clone
SeasonCandidates(clone_dir, season_str) ==
    << Join(clone_dir, <<<<"data">>, season_str>>),
       Join(clone_dir, <<<<"data">>, Replace(season_str, "-", <<>>)>>),
       Join(clone_dir, <<<<"season">>, season_str>>),
       Join(clone_dir, <<season_str>>),
       Join(clone_dir, <<<<"seasons">>, season_str>>) >>

\* the first candidate that exists, as an index into the list (0: none)
FirstExisting(fs, cands) ==
    IF \E i \in 1..Len(cands) : Exists(fs, cands[i])
    THEN CHOOSE i \in 1..Len(cands) :
            /\ Exists(fs, cands[i])
            /\ \A j \in 1..(i - 1) : ~Exists(fs, cands[j])
    ELSE 0

\* find_and_copy_season_from_clone: for the first existing candidate, remove
\* dest_dir when it exists, then copytree(cand, dest_dir), which raises when
\* cand is gone (the rmtree removed it: cand is dest_dir or lies under it)
FindAndCopySeasonFromClone(fs, clone_dir, season_str, dest_dir) ==
    LET cands == SeasonCandidates(clone_dir, season_str)
        i == FirstExisting(fs, cands)
        cleared == IF Exists(fs, dest_dir) THEN RmTree(fs, dest_dir) ELSE fs
    IN  IF i = 0 THEN [raised |-> FALSE, copied |-> FALSE, fs |-> fs]
        ELSE IF ~Exists(cleared, cands[i])
             THEN [raised |-> TRUE, copied |-> FALSE, fs |-> cleared]
             ELSE [raised |-> FALSE, copied |-> TRUE,
                   fs |-> CopyTree(cleared, cands[i], dest_dir)]

\* `fname.lower().startswith("gw_") and fname.lower().endswith(".csv")`
IsGwCsv(fname) == StartsWith(Lower(fname), "gw_") /\ EndsWith(Lower(fname), ".csv")

\* flatten_vaastav_gws: every gw_*.csv file under season_folder (os.walk) is
\* copied into out_csv_dir under its own name; returns whether any was found
WalkMatches(fs, season_folder) ==
    {f \in fs.files : IsPrefix(season_folder, f.dir) /\ IsGwCsv(f.name)}
FlattenVaastavGws(fs, season_folder, csv) ==
    [found |-> WalkMatches(fs, season_folder) # {},
     csv |-> csv \cup {f.name : f \in WalkMatches(fs, season_folder)}]

\* `candidate_gws` of main
CandidateGws(season_src) ==
    { Join(season_src, <<<<"gws">>>>),
      Join(season_src, <<<<"data">>, <<"gws">>>>),
      Join(season_src, <<<<"gw">>>>) }

\* `fname.lower().endswith(".csv") and "gw" in fname.lower()` over os.listdir(cand)
\* of every existing candidate_gws directory
KnownFolderMatches(fs, season_src) ==
    {f \in fs.files :
        /\ f.dir \in CandidateGws(season_src)
        /\ EndsWith(Lower(f.name), ".csv")
        /\ ContainsGw(Lower(f.name))}

\* lines 272-282 of main: no season folder was copied
ArchiveNotCopied(fs, csv) ==
    LET flattened == FlattenVaastavGws(fs, CLONE_DIR, csv)
    IN  [raised |-> ~flattened.found, csv |-> flattened.csv]

\* lines 283-308 of main: the season folder was copied to season_src
ArchiveCopied(fs, season_src, csv) ==
    LET known == KnownFolderMatches(fs, season_src)
        found_any == known # {}
        flattened == FlattenVaastavGws(fs, season_src, csv)
    IN  IF found_any
        THEN [raised |-> FALSE, csv |-> csv \cup {f.name : f \in known}]
        ELSE [raised |-> ~flattened.found, csv |-> flattened.csv]

\* the whole archive branch of main (lines 266-311), every exception re-raised
\* by the except clause
ArchiveBranch(fs, archive, clone_ok) ==
    LET season_src == Join(CLONE_DIR, <<TARGET_SEASON>>)
        cloned == CloneRepo(fs, archive, clone_ok)
        located == FindAndCopySeasonFromClone(cloned.fs, CLONE_DIR, TARGET_SEASON, season_src)
        flat == IF located.copied
                THEN ArchiveCopied(located.fs, season_src, {})
                ELSE ArchiveNotCopied(located.fs, {})
    IN  IF cloned.raised THEN [raised |-> TRUE, fs |-> cloned.fs, csv |-> {}]
        ELSE IF located.raised THEN [raised |-> TRUE, fs |-> located.fs, csv |-> {}]
        ELSE [raised |-> flat.raised, fs |-> located.fs, csv |-> flat.csv]

(* ---- the archive branch as a state machine ----------------------------- *)

EmptyFs == [dirs |-> {}, files |-> {}]

\* file names: "gw1.csv" (the naming of the community archive; matches the
\* known-folder pattern only), "GW_7_players.CSV" (matches both patterns once
\* lower-cased), "players_raw.csv" (matches neither)
NameGw1 == <<"gw", "1", ".csv">>
NameGw7 == <<"GW_", "7", "_players", ".CSV">>
NameRaw == <<"players_raw", ".csv">>

\* what a season directory may hold, as files relative to it
SeasonContents ==
    { {},
      {[sub |-> << <<"gws">> >>, name |-> NameGw1]},
      {[sub |-> << <<"misc">>, <<"deep">> >>, name |-> NameGw7]},
      {[sub |-> << <<"gws">> >>, name |-> NameRaw]},
      {[sub |-> << <<"data">>, <<"gws">> >>, name |-> NameGw1],
       [sub |-> << <<"misc">>, <<"deep">> >>, name |-> NameGw7]} }

\* what the archive may hold outside the season directories
ElsewhereContents ==
    { {},
      {[sub |-> << <<"data">>, <<"2024", "-", "25">>, <<"gws">> >>, name |-> NameGw7]} }

\* the directory `base` with the relative files `content` in it
Populate(base, content) ==
    [dirs |-> {base} \cup
              UNION { {Join(base, SubSeq(f.sub, 1, k)) : k \in 1..Len(f.sub)} : f \in content },
     files |-> {[dir |-> Join(base, f.sub), name |-> f.name] : f \in content}]

\* an archive: each of the five season candidates absent or holding some
\* content, plus the content elsewhere
ArchiveOf(assign, elsewhere) ==
    LET cands == SeasonCandidates(CLONE_DIR, TARGET_SEASON)
        parts == {Populate(cands[i], assign[i][1]) : i \in {j \in 1..5 : assign[j] # None}}
                 \cup {Populate(CLONE_DIR, elsewhere)}
    IN  [dirs |-> UNION {p.dirs : p \in parts},
         files |-> UNION {p.files : p \in parts}]

Archives ==
    { ArchiveOf(assign, elsewhere) :
        assign \in [1..5 -> {None} \cup {Some(c) : c \in SeasonContents}],
        elsewhere \in ElsewhereContents }

NotLocated == [called |-> FALSE, raised |-> FALSE, copied |-> FALSE]

ArchiveIdle ==
    /\ a_pc = "idle" /\ a_fs = EmptyFs /\ a_archive = EmptyFs /\ a_clone_ok = TRUE
    /\ a_before = EmptyFs /\ a_located = NotLocated /\ a_csv = {} /\ a_end = "running"

\* main has taken the archive branch (line 266); the clone directory either is
\* left from an earlier run or has to be cloned
InitArchive ==
    /\ a_pc = "clone"
    /\ a_archive \in Archives
    /\ \E clone_exists \in BOOLEAN :
          /\ a_fs = IF clone_exists THEN a_archive ELSE EmptyFs
          /\ a_clone_ok \in (IF clone_exists THEN {TRUE} ELSE BOOLEAN)
    /\ a_before = EmptyFs
    /\ a_located = NotLocated
    /\ a_csv = {}
    /\ a_end = "running"

\* clone_repo(repo, CLONE_DIR)
ArchiveClone ==
    /\ a_pc = "clone"
    /\ LET r == CloneRepo(a_fs, a_archive, a_clone_ok)
       IN  /\ a_fs' = r.fs
           /\ a_pc' = IF r.raised THEN "done" ELSE "locate"
           /\ a_end' = IF r.raised THEN "raised" ELSE a_end
    /\ UNCHANGED <<a_archive, a_clone_ok, a_before, a_located, a_csv>>
    /\ UNCHANGED <<httpVars, reconVars, runVars>>

\* copied = find_and_copy_season_from_clone(CLONE_DIR, TARGET_SEASON, season_src)
ArchiveLocate ==
    /\ a_pc = "locate"
    /\ LET r == FindAndCopySeasonFromClone(a_fs, CLONE_DIR, TARGET_SEASON,
                                           Join(CLONE_DIR, <<TARGET_SEASON>>))
       IN  /\ a_fs' = r.fs
           /\ a_before' = a_fs
           /\ a_located' = [called |-> TRUE, raised |-> r.raised, copied |-> r.copied]
           /\ a_pc' = IF r.raised THEN "done"
                      ELSE IF r.copied THEN "copied" ELSE "not_copied"
           /\ a_end' = IF r.raised THEN "raised" ELSE a_end
    /\ UNCHANGED <<a_archive, a_clone_ok, a_csv>>
    /\ UNCHANGED <<httpVars, reconVars, runVars>>

\* `if not copied:` the recursive scan of the whole clone
ArchiveScanClone ==
    /\ a_pc = "not_copied"
    /\ LET r == ArchiveNotCopied(a_fs, a_csv)
       IN  /\ a_csv' = r.csv
           /\ a_end' = IF r.raised THEN "raised" ELSE "returned"
    /\ a_pc' = "done"
    /\ UNCHANGED <<a_fs, a_archive, a_clone_ok, a_before, a_located>>
    /\ UNCHANGED <<httpVars, reconVars, runVars>>

\* `else:` the known folders of the copied season tree, then its recursive scan
ArchiveFlattenCopied ==
    /\ a_pc = "copied"
    /\ LET r == ArchiveCopied(a_fs, Join(CLONE_DIR, <<TARGET_SEASON>>), a_csv)
       IN  /\ a_csv' = r.csv
           /\ a_end' = IF r.raised THEN "raised" ELSE "returned"
    /\ a_pc' = "done"
    /\ UNCHANGED <<a_fs, a_archive, a_clone_ok, a_before, a_located>>
    /\ UNCHANGED <<httpVars, reconVars, runVars>>

NextArchive == ArchiveClone \/ ArchiveLocate \/ ArchiveScanClone \/ ArchiveFlattenCopied

(***************************************************************************)
(* main of gameweek25-26.py and main of gameweek_data.py                   *)
(***************************************************************************)

\* largest period identifier listed in the reference metadata
MaxGw == 3
\* longest events list of the reference metadata
MaxEvents == 2
\* last period whose fetch or csv write the environment may fail
MaxFaulty == 2
\* `gw_ids = list(range(1, 39))`: the exclusive end of the default range
DEFAULT_RANGE_END == 39
\* `max(..., default=38)` and the default of --end
DEFAULT_MAX_EVENT == 38

Scripts == {"gameweek25-26.py", "gameweek_data.py"}

(* ---- season labels ------------------------------------------------------ *)
\* a value of the season_name / season key: missing, a string, or a number
NoLabel == [type |-> "none", text |-> <<>>]
StrLabel(text) == [type |-> "str", text |-> text]
IntLabel == [type |-> "int", text |-> <<"2025">>]

SeasonNameValues ==
    { NoLabel, IntLabel, StrLabel(<<>>),
      StrLabel(<<"2025", "-", "26">>), StrLabel(<<"2025", "/", "26">>),
      StrLabel(<<" ", "2025", "/", "26", " ">>), StrLabel(<<"2024", "-", "25">>) }
SeasonValues ==
    { NoLabel, StrLabel(<<"2025", "/", "26">>), StrLabel(<<"2024", "/", "25">>) }

LabelTruthy(l) == l.type = "int" \/ (l.type = "str" /\ l.text # <<>>)

\* str.strip(): leading and trailing whitespace removed
RECURSIVE LStrip(_)
LStrip(str) == IF str # <<>> /\ Head(str) = " " THEN LStrip(Tail(str)) ELSE str
RECURSIVE RStrip(_)
RStrip(str) ==
    IF str # <<>> /\ str[Len(str)] = " " THEN RStrip(SubSeq(str, 1, Len(str) - 1)) ELSE str
Strip(str) == RStrip(LStrip(str))

\* `api_season.replace("/", "-").strip()`
NormalizeNoStrip(text) == Replace(text, "/", <<"-">>)
Normalize(text) == Strip(Replace(text, "/", <<"-">>))

\* lines 238-242: api_season = bootstrap.get("season_name") or
\* bootstrap.get("season"), normalized when it is a string; None without bootstrap
ApiSeason(b) ==
    IF ~b.ok THEN NoLabel
    ELSE LET raw == IF LabelTruthy(b.season_name) THEN b.season_name ELSE b.season
         IN  IF raw.type = "str" THEN StrLabel(Normalize(raw.text)) ELSE raw

\* `api_season == TARGET_SEASON`
IsTarget(label) == label = StrLabel(TARGET_SEASON)

(* ---- the periods to fetch ------------------------------------------------- *)
\* sorted(list): insertion sort, duplicates kept
RECURSIVE Insert(_, _)
Insert(x, s) ==
    IF s = <<>> THEN <<x>>
    ELSE IF x <= Head(s) THEN <<x>> \o s ELSE <<Head(s)>> \o Insert(x, Tail(s))
RECURSIVE Sorted(_)
Sorted(s) == IF s = <<>> THEN <<>> ELSE Insert(Head(s), Sorted(Tail(s)))

\* list(range(a, b))
Range(a, b) == [i \in 1..(IF b > a THEN b - a ELSE 0) |-> a + i - 1]

\* [e.get("id") for e in events if e.get("id") is not None]
RECURSIVE EventIds(_)
EventIds(events) ==
    IF events = <<>> THEN <<>>
    ELSE (IF Head(events) = None THEN <<>> ELSE <<Head(events)[1]>>) \o EventIds(Tail(events))

\* the identifiers in the order the events list gives them
LiveGwIdsUnsorted(b) ==
    LET ids == EventIds(b.events)
    IN  IF ids = <<>> THEN Range(1, DEFAULT_RANGE_END) ELSE ids
\* lines 247-251 of gameweek25-26.py
LiveGwIds(b) ==
    LET ids == Sorted(EventIds(b.events))
    IN  IF ids = <<>> THEN Range(1, DEFAULT_RANGE_END) ELSE ids

Max(a, b) == IF a >= b THEN a ELSE b
Min(a, b) == IF a <= b THEN a ELSE b
RECURSIVE MaxOf(_, _)
MaxOf(s, default) ==
    IF s = <<>> THEN default
    ELSE IF Tail(s) = <<>> THEN Head(s) ELSE Max(Head(s), MaxOf(Tail(s), default))

\* lines 207-214 of gameweek_data.py: max_event = max((e.get("id", 0) for e in
\* events), default=38); range(max(1, start), min(end, max_event) + 1)
GdGwIds(b, a) ==
    LET ids == [i \in 1..Len(b.events) |->
                   IF b.events[i] = None THEN 0 ELSE b.events[i][1]]
        max_event == MaxOf(ids, DEFAULT_MAX_EVENT)
    IN  Range(Max(1, a.start), Min(a.end, max_event) + 1)

(* ---- one period ---------------------------------------------------------- *)
\* raw period payloads the API may answer with
RunPayloads ==
    { [event |-> Some(2), gameweek |-> None, elements |-> els] : els \in
        { <<>>,
          << [id |-> None, element |-> None,
              stats |-> [shape |-> "dict", map |-> ("minutes" :> Some(90)), pairs |-> <<>>],
              top |-> EmptyDict, extra |-> EmptyDict] >>,
          << [id |-> Some(1), element |-> None,
              stats |-> [shape |-> "dict", map |-> ("minutes" :> Some(90)), pairs |-> <<>>],
              top |-> EmptyDict, extra |-> EmptyDict] >>,
          << [id |-> Some(9), element |-> None,
              stats |-> [shape |-> "dict", map |-> ("minutes" :> Some(90)), pairs |-> <<>>],
              top |-> EmptyDict, extra |-> EmptyDict] >>,
          << [id |-> Some(1), element |-> None,
              stats |-> [shape |-> "list", map |-> ("minutes" :> Some(90)),
                         pairs |-> << [identifier |-> Some("minutes"), name |-> None,
                                       value |-> Some(90)] >>],
              top |-> EmptyDict, extra |-> EmptyDict] >> } }

\* what the environment does to one period: the fetch (http_get, r.json(),
\* save_json) fails or delivers a payload, and the csv write fails or not
PeriodEnvs ==
    [fetch_ok : BOOLEAN, gw_json : RunPayloads, write_ok : BOOLEAN]

\* the environment fails only the periods up to MaxFaulty; the fetch of a later
\* period succeeds with one known entity in the payload
QuietEnv ==
    [fetch_ok |-> TRUE, write_ok |-> TRUE,
     gw_json |-> CHOOSE p \in RunPayloads :
                    Len(p.elements) = 1 /\ p.elements[1].id = Some(1)
                    /\ p.elements[1].stats.shape = "dict"]
EnvsOf(gw) == IF gw <= MaxFaulty THEN PeriodEnvs ELSE {QuietEnv}

\* the body of the per-period try block: fetch_event_live / http_get and
\* save_json, then the reconciler, then write_csv / write_rows_to_csv, which
\* writes nothing when there are no rows.  [raised, raw, csv, rows]: whether
\* the body raised, whether the raw capture and the csv were written, and how
\* many rows the reconciler returned.
PeriodBody(func, env, b) ==
    LET r == Reconcile(func, env.gw_json, b, 0)
    IN  IF ~env.fetch_ok THEN [raised |-> TRUE, raw |-> FALSE, csv |-> FALSE, rows |-> 0]
        ELSE IF r.kind = "raise"
             THEN [raised |-> TRUE, raw |-> TRUE, csv |-> FALSE, rows |-> 0]
        ELSE IF r.rows = <<>>
             THEN [raised |-> FALSE, raw |-> TRUE, csv |-> FALSE, rows |-> 0]
        ELSE IF ~env.write_ok
             THEN [raised |-> TRUE, raw |-> TRUE, csv |-> FALSE, rows |-> Len(r.rows)]
        ELSE [raised |-> FALSE, raw |-> TRUE, csv |-> TRUE, rows |-> Len(r.rows)]

\* the per-period try/except of main: an exception of the body is caught and
\* printed, and the loop goes on
PeriodUnguarded(func, env, b) ==
    LET body == PeriodBody(func, env, b)
    IN  [raw |-> body.raw, csv |-> body.csv, propagates |-> body.raised,
         outcome |-> [failed |-> body.raised, rows |-> body.rows]]
PeriodGuarded(func, env, b) ==
    LET body == PeriodBody(func, env, b)
    IN  [raw |-> body.raw, csv |-> body.csv, propagates |-> FALSE,
         outcome |-> [failed |-> body.raised, rows |-> body.rows]]

(* ---- main as a state machine --------------------------------------------- *)
\* `bootstrap = None`
NoBootstrap ==
    [ok |-> FALSE, season_name |-> NoLabel, season |-> NoLabel, events |-> <<>>,
     elements |-> ReconBootstrap.elements, teams |-> ReconBootstrap.teams,
     element_types |-> ReconBootstrap.element_types]

\* the reference metadata the API may answer with
Bootstraps ==
    { [NoBootstrap EXCEPT !.ok = TRUE, !.season_name = sn, !.season = se, !.events = ev]
      : sn \in SeasonNameValues, se \in SeasonValues,
        ev \in SeqsUpTo({None} \cup {Some(g) : g \in 1..MaxGw}, MaxEvents) }

\* the command lines of gameweek_data.py explored (--start, --end)
ArgValues == [start : {0, 1, 2}, end : {2, DEFAULT_MAX_EVENT}]
NoArgs == [start |-> 1, end |-> DEFAULT_MAX_EVENT]

\* the archives the fallback may meet: the data/<season> and the <season>
\* directory each absent, empty or holding gws/gw1.csv
RunArchives ==
    { ArchiveOf([i \in 1..5 |-> IF i = 1 THEN c1 ELSE IF i = 4 THEN c4 ELSE None], e)
      : c1 \in {None, Some({}), Some({[sub |-> << <<"gws">> >>, name |-> NameGw1]})},
        c4 \in {None, Some({}), Some({[sub |-> << <<"gws">> >>, name |-> NameGw1]})},
        e \in ElsewhereContents }

\* how the archive branch ends on each of them, with the clone directory
\* present from an earlier run or not, and `git clone` succeeding or not
RunArchiveOutcomes ==
    { ArchiveBranch(IF clone_exists THEN archive ELSE EmptyFs, archive, clone_ok)
      : archive \in RunArchives, clone_exists \in BOOLEAN, clone_ok \in BOOLEAN }

NotRun == [ran |-> FALSE, raised |-> FALSE, csv |-> {}]

\* the reconciler each script calls in its per-period loop
ReconcilerOf(s) ==
    IF s = "gameweek25-26.py" THEN "flatten_live_to_rows" ELSE "gw_live_to_rows"

\* what happens to an exception of the metadata fetch: gameweek25-26.py wraps
\* fetch_bootstrap in try/except and sets bootstrap = None, gameweek_data.py
\* calls load_bootstrap unguarded
BootstrapFailurePropagatesAlways(s) == TRUE
BootstrapFailurePropagates(s) == s = "gameweek_data.py"

\* the exit status of the interpreter: 1 when an exception leaves main, else 0
ExitStatusCountsFailures(end, outs) ==
    IF end = "raised" \/ \E i \in 1..Len(outs) : outs[i].failed THEN 1 ELSE 0
ExitStatus(end, outs) == IF end = "raised" THEN 1 ELSE 0

RunIdle ==
    /\ script = "none" /\ pc = "idle" /\ args = NoArgs /\ bootstrap = NoBootstrap
    /\ api_season = NoLabel /\ source = "undecided" /\ decisions = 0
    /\ gw_ids = <<>> /\ gw_i = 0 /\ attempted = <<>> /\ outcomes = <<>>
    /\ raw_files = {} /\ csv_files = {} /\ archive_out = NotRun
    /\ run_end = "running" /\ exit_status = None

InitRun ==
    /\ script \in Scripts
    /\ pc = "start"
    /\ args \in (IF script = "gameweek_data.py" THEN ArgValues ELSE {NoArgs})
    /\ bootstrap = NoBootstrap
    /\ api_season = NoLabel /\ source = "undecided" /\ decisions = 0
    /\ gw_ids = <<>> /\ gw_i = 0 /\ attempted = <<>> /\ outcomes = <<>>
    /\ raw_files = {} /\ csv_files = {} /\ archive_out = NotRun
    /\ run_end = "running" /\ exit_status = None

\* main ends with an exception that nothing catches
Abort ==
    /\ run_end' = "raised"
    /\ exit_status' = Some(ExitStatus("raised", outcomes))
    /\ pc' = "done"

\* gameweek25-26.py lines 231-236: try: bootstrap = fetch_bootstrap(raw_dir)
\* except Exception: bootstrap = None
FetchBootstrap ==
    /\ script = "gameweek25-26.py" /\ pc = "start"
    /\ \/ /\ bootstrap' \in Bootstraps
          /\ pc' = "select"
          /\ UNCHANGED <<run_end, exit_status>>
       \/ IF BootstrapFailurePropagates(script)
          THEN Abort /\ UNCHANGED bootstrap
          ELSE /\ bootstrap' = NoBootstrap
               /\ pc' = "select"
               /\ UNCHANGED <<run_end, exit_status>>
    /\ UNCHANGED <<script, args, api_season, source, decisions, gw_ids, gw_i,
                   attempted, outcomes, raw_files, csv_files, archive_out>>
    /\ UNCHANGED <<httpVars, reconVars, archiveVars>>

\* gameweek25-26.py lines 238-252: the season label is read and normalized and
\* `api_season == TARGET_SEASON` decides the source; on the live side the list
\* of periods is computed
SelectSource ==
    /\ script = "gameweek25-26.py" /\ pc = "select"
    /\ api_season' = ApiSeason(bootstrap)
    /\ decisions' = decisions + 1
    /\ IF IsTarget(ApiSeason(bootstrap))
       THEN /\ source' = "Live"
            /\ gw_ids' = LiveGwIds(bootstrap)
            /\ pc' = "loop"
       ELSE /\ source' = "Archive"
            /\ gw_ids' = gw_ids
            /\ pc' = "archive"
    /\ UNCHANGED <<script, args, bootstrap, gw_i, attempted, outcomes, raw_files,
                   csv_files, archive_out, run_end, exit_status>>
    /\ UNCHANGED <<httpVars, reconVars, archiveVars>>

\* gameweek_data.py lines 205-212: bootstrap = load_bootstrap(raw_dir), outside
\* any try, then the range of periods
LoadBootstrap ==
    /\ script = "gameweek_data.py" /\ pc = "start"
    /\ \/ /\ \E b \in Bootstraps :
                /\ b.season_name = NoLabel /\ b.season = NoLabel
                /\ bootstrap' = b
                /\ gw_ids' = GdGwIds(b, args)
          /\ source' = "Live"
          /\ pc' = "loop"
          /\ UNCHANGED <<run_end, exit_status>>
       \/ IF BootstrapFailurePropagates(script)
          THEN Abort /\ UNCHANGED <<bootstrap, gw_ids, source>>
          ELSE /\ bootstrap' = NoBootstrap
               /\ gw_ids' = GdGwIds(NoBootstrap, args)
               /\ source' = "Live"
               /\ pc' = "loop"
               /\ UNCHANGED <<run_end, exit_status>>
    /\ UNCHANGED <<script, args, api_season, decisions, gw_i, attempted, outcomes,
                   raw_files, csv_files, archive_out>>
    /\ UNCHANGED <<httpVars, reconVars, archiveVars>>

\* one iteration of the per-period loop of either script (gameweek25-26.py
\* lines 253-262, gameweek_data.py lines 214-218 with fetch_and_store_gw)
LivePeriod ==
    /\ pc = "loop" /\ gw_i < Len(gw_ids)
    /\ \E gw \in {gw_ids[gw_i + 1]} :
       \E env \in EnvsOf(gw) :
       \E r \in {PeriodGuarded(ReconcilerOf(script), env, bootstrap)} :
          /\ attempted' = Append(attempted, gw)
          /\ raw_files' = IF r.raw THEN raw_files \cup {gw} ELSE raw_files
          /\ csv_files' = IF r.csv THEN csv_files \cup {gw} ELSE csv_files
          /\ IF r.propagates
             THEN Abort /\ UNCHANGED <<gw_i, outcomes>>
             ELSE /\ outcomes' = Append(outcomes, r.outcome)
                  /\ gw_i' = gw_i + 1
                  /\ UNCHANGED <<pc, run_end, exit_status>>
    /\ UNCHANGED <<script, args, bootstrap, api_season, source, decisions, gw_ids,
                   archive_out>>
    /\ UNCHANGED <<httpVars, reconVars, archiveVars>>

\* the loop is over: the [DONE] line, and main returns
LiveDone ==
    /\ pc = "loop" /\ gw_i = Len(gw_ids)
    /\ run_end' = "returned"
    /\ exit_status' = Some(ExitStatus("returned", outcomes))
    /\ pc' = "done"
    /\ UNCHANGED <<script, args, bootstrap, api_season, source, decisions, gw_ids,
                   gw_i, attempted, outcomes, raw_files, csv_files, archive_out>>
    /\ UNCHANGED <<httpVars, reconVars, archiveVars>>

\* gameweek25-26.py lines 266-311: the archive branch, on whatever archive and
\* clone outcome the environment provides
ArchiveFallback ==
    /\ script = "gameweek25-26.py" /\ pc = "archive"
    /\ \E r \in RunArchiveOutcomes :
       \E end \in {IF r.raised THEN "raised" ELSE "returned"} :
          /\ archive_out' = [ran |-> TRUE, raised |-> r.raised, csv |-> r.csv]
          /\ run_end' = end
          /\ exit_status' = Some(ExitStatus(end, outcomes))
    /\ pc' = "done"
    /\ UNCHANGED <<script, args, bootstrap, api_season, source, decisions, gw_ids,
                   gw_i, attempted, outcomes, raw_files, csv_files>>
    /\ UNCHANGED <<httpVars, reconVars, archiveVars>>

NextRun ==
    \/ FetchBootstrap \/ SelectSource \/ LoadBootstrap
    \/ LivePeriod \/ LiveDone \/ ArchiveFallback

vars == <<httpVars, reconVars, archiveVars, runVars>>

\* each specification starts one component and leaves the others idle
HttpStart == InitHttp /\ ReconIdle /\ ArchiveIdle /\ RunIdle
ReconStart == InitRecon /\ HttpIdle /\ ArchiveIdle /\ RunIdle
ArchiveStart == InitArchive /\ HttpIdle /\ ReconIdle /\ RunIdle
RunStart == InitRun /\ HttpIdle /\ ReconIdle /\ ArchiveIdle

SpecHttp == HttpStart /\ [][NextHttp]_vars

SpecRecon == ReconStart /\ [][NextRecon]_vars

SpecArchive == ArchiveStart /\ [][NextArchive]_vars

SpecRun == RunStart /\ [][NextRun]_vars

(***************************************************************************)
(* Properties                                                              *)
(***************************************************************************)
AllFailed(outs) == \A i \in 1..Len(outs) : outs[i] \in FailureKinds

\* C1 (SpecHttp): http_get with budget N = max_retries issues at most N
\* requests and none after a success; when attempts 1..k-1 fail and attempt k
\* succeeds it returns the response of attempt k, having issued exactly k
\* requests; when all N attempts fail (timeout, connection error or HTTP error
\* status alike) it raises the error of attempt N, having issued exactly N.
C1_RetryBound ==
    /\ Len(issued) <= max_retries
    /\ AllFailed(SubSeq(issued, 1, Len(issued) - 1))
    /\ h_pc = "loop" => /\ attempt = Len(issued) + 1
                        /\ AllFailed(issued)
                        /\ h_ret.kind = "pending"
    /\ h_pc = "done" =>
          \/ /\ h_ret.kind = "return"
             /\ Len(issued) >= 1
             /\ issued[Len(issued)] = "ok"
             /\ h_ret.response = Len(issued)
          \/ /\ h_ret.kind = "raise"
             /\ Len(issued) = max_retries
             /\ AllFailed(issued)
             /\ h_ret.exc = [error |-> issued[max_retries], attempt |-> max_retries]

\* two failures of different kinds, then the third attempt of three succeeds
C1_Witness ==
    /\ h_pc = "done" /\ max_retries = 3
    /\ issued = <<"timeout", "http_error_status", "ok">>
    /\ h_ret = [kind |-> "return", response |-> 3]

\* the season label the reference metadata reports: season_name, else season
ReportedLabel(b) == IF LabelTruthy(b.season_name) THEN b.season_name ELSE b.season

\* the decision is taken once, after the metadata fetch has ended
DecidedOnce ==
    /\ decisions <= 1
    /\ (decisions = 0) <=> (pc \in {"start", "select"})
    /\ (decisions = 0) <=> (source = "undecided")

\* C2 as amended (SpecRun): main of gameweek25-26.py takes the Live path if and
\* only if the reported season label is a string that equals "2025-26" after
\* '/' is replaced by '-' and surrounding whitespace is stripped; every other
\* case (another season, no label, a non-string label, no metadata) takes the
\* Archive path; the decision is evaluated exactly once, after the fetch.
C2_SelectionStripped ==
    script = "gameweek25-26.py" =>
        /\ DecidedOnce
        /\ decisions = 1 =>
              /\ source \in {"Live", "Archive"}
              /\ (source = "Live") <=>
                    /\ bootstrap.ok
                    /\ ReportedLabel(bootstrap).type = "str"
                    /\ Strip(Replace(ReportedLabel(bootstrap).text, "/", <<"-">>))
                          = <<"2025", "-", "26">>

\* a label padded with whitespace has led to the Live path
C2_Witness ==
    /\ script = "gameweek25-26.py" /\ source = "Live" /\ decisions = 1
    /\ bootstrap.season_name = StrLabel(<<" ", "2025", "/", "26", " ">>)

\* C2 as stated: Live if and only if the label equals "2025-26" after '/' is
\* replaced by '-' (and nothing else is done to it).
C2_SelectionAsStated ==
    script = "gameweek25-26.py" =>
        /\ DecidedOnce
        /\ decisions = 1 =>
              ((source = "Live") <=>
                    /\ bootstrap.ok
                    /\ ReportedLabel(bootstrap).type = "str"
                    /\ Replace(ReportedLabel(bootstrap).text, "/", <<"-">>)
                          = <<"2025", "-", "26">>)

\* on the live path every list element is attempted once, in list order, and
\* no failure of a period aborts the run
LoopIsolatesFailures ==
    /\ attempted = SubSeq(gw_ids, 1, Len(attempted))
    /\ Len(outcomes) = Len(attempted)
    /\ gw_i = Len(attempted)
    /\ run_end # "raised"
    /\ pc = "done" => attempted = gw_ids /\ run_end = "returned"

\* C3 as amended (SpecRun): on the live path of either script a failing period
\* is caught at the loop, every period of the list is attempted exactly once in
\* list order and the loop reaches its end; a period that did not fail has its
\* raw capture written, and its tabular artifact written when reconciliation
\* produced at least one row (with no rows the writer writes nothing).
C3_LoopContinues ==
    source = "Live" =>
        /\ LoopIsolatesFailures
        /\ \A i \in 1..Len(outcomes) :
              /\ ~outcomes[i].failed => attempted[i] \in raw_files
              /\ (~outcomes[i].failed /\ outcomes[i].rows > 0) => attempted[i] \in csv_files

\* a run over two periods has ended: the first failed, the second was written
C3_Witness ==
    /\ source = "Live" /\ pc = "done" /\ run_end = "returned"
    /\ Len(outcomes) = 2
    /\ outcomes[1].failed /\ ~outcomes[2].failed /\ outcomes[2].rows > 0
    /\ attempted[2] \in csv_files /\ attempted[1] \notin csv_files

\* C3 as stated: ... and every period that did not fail has its artifact
\* written.
C3_LoopAsStated ==
    source = "Live" =>
        /\ LoopIsolatesFailures
        /\ \A i \in 1..Len(outcomes) :
              ~outcomes[i].failed => attempted[i] \in csv_files

\* the fetch of the reference metadata has failed
MetadataFetchFailed == pc # "start" /\ ~bootstrap.ok

\* C4 as amended (SpecRun): when the fetch of the reference metadata fails,
\* main of gameweek25-26.py is not aborted by it: it goes on to the source
\* decision and takes the Archive path (only a failure of the archive branch
\* itself can then abort the run); main of gameweek_data.py does not catch the
\* failure: the run aborts before any period is fetched.
C4_MetadataFailure ==
    MetadataFetchFailed =>
        /\ attempted = <<>>
        /\ script = "gameweek25-26.py" =>
              /\ pc = "select" \/ source = "Archive"
              /\ run_end = "raised" => archive_out.ran
        /\ script = "gameweek_data.py" =>
              pc = "done" /\ run_end = "raised" /\ source = "undecided"

\* gameweek25-26.py has lost the metadata and ended the archive path normally
C4_Witness ==
    /\ script = "gameweek25-26.py" /\ MetadataFetchFailed
    /\ source = "Archive" /\ pc = "done" /\ run_end = "returned"
    /\ archive_out.csv # {}

\* C4 as stated: in either script the failed metadata fetch does not abort the
\* run, which takes the Archive path.
C4_MetadataAsStated ==
    MetadataFetchFailed =>
        /\ pc = "select" \/ source = "Archive"
        /\ run_end = "raised" => archive_out.ran

AnyPeriodFailed == \E i \in 1..Len(outcomes) : outcomes[i].failed

\* C5 as amended (SpecRun): the exit status does not reflect per-period
\* failures: it is zero exactly when main returns, which every run that reached
\* the per-period loop does, however many periods failed; it is non-zero
\* exactly when an exception leaves main.
C5_ExitStatus ==
    /\ pc # "done" => exit_status = None
    /\ pc = "done" =>
          /\ exit_status \in {Some(0), Some(1)}
          /\ (exit_status = Some(0)) <=> (run_end = "returned")
          /\ source = "Live" => exit_status = Some(0)

\* a run with a failed and a written period has ended with status zero
C5_Witness ==
    /\ pc = "done" /\ AnyPeriodFailed /\ csv_files # {}
    /\ exit_status = Some(0)

\* C5 as stated: the exit status is non-zero whenever at least one period
\* failed, and zero only when no period failed.
C5_ExitAsStated ==
    pc = "done" => /\ AnyPeriodFailed => exit_status # Some(0)
                   /\ exit_status = Some(0) => ~AnyPeriodFailed

\* the season directory the archive offers first (0: none), and the per-period
\* files the two search tiers find in the archive as cloned: the known folders
\* of that season directory, then the recursive walk (of the season directory,
\* or of the whole clone when there is no season directory)
OfferedSeason(archive) ==
    FirstExisting(archive, SeasonCandidates(CLONE_DIR, TARGET_SEASON))
TierFiles(archive) ==
    LET cands == SeasonCandidates(CLONE_DIR, TARGET_SEASON)
        i == OfferedSeason(archive)
    IN  IF i = 0 THEN WalkMatches(archive, CLONE_DIR)
        ELSE KnownFolderMatches(archive, cands[i]) \cup WalkMatches(archive, cands[i])

\* C6 (SpecArchive): the archive path aborts exactly when the clone fails or
\* no per-period file is found by either tier; when a per-period file is found
\* by some tier the run ends normally with a found file in the output directory.
C6_ArchiveAbortsOnlyWhenEmpty ==
    a_pc = "done" =>
        /\ (a_end = "raised") <=> (~a_clone_ok \/ TierFiles(a_archive) = {})
        /\ a_end = "returned" => \E f \in TierFiles(a_archive) : f.name \in a_csv

\* C7 (SpecArchive): find_and_copy_season_from_clone as called by main never
\* raises; it returns False exactly when no candidate exists; when it returns
\* True the first existing candidate still exists and the destination holds a
\* copy of it.
C7_LocatorNeverFails ==
    a_located.called =>
        LET cands == SeasonCandidates(CLONE_DIR, TARGET_SEASON)
            i == FirstExisting(a_before, cands)
            dest == Join(CLONE_DIR, <<TARGET_SEASON>>)
        IN  /\ ~a_located.raised
            /\ a_located.copied <=> (i # 0)
            /\ a_located.copied =>
                  /\ Exists(a_fs, cands[i])
                  /\ {[dir |-> ReRoot(f.dir, dest, <<>>), name |-> f.name]
                        : f \in {x \in a_fs.files : IsPrefix(dest, x.dir)}}
                     = {[dir |-> ReRoot(f.dir, cands[i], <<>>), name |-> f.name]
                        : f \in {x \in a_before.files : IsPrefix(cands[i], x.dir)}}

\* the entries the claim retains: those with an 'id' or an 'element' field,
\* each with its identifier, the direct one when both are present
RECURSIVE RetainedIds(_)
RetainedIds(elements) ==
    IF elements = <<>> THEN <<>>
    ELSE LET e == Head(elements)
         IN  (IF e.id # None THEN <<e.id>>
              ELSE IF e.element # None THEN <<e.element>> ELSE <<>>)
             \o RetainedIds(Tail(elements))

\* C8 (SpecRecon): the rows of a call are exactly the entries with an 'id' or
\* an 'element' field, one row each, in payload order, each row carrying the
\* entry's identifier (the direct one when both are present).
C8_RowsAreIdentifiedEntries ==
    r_pc # "call" =>
        /\ r_out[1].kind = "return"
        /\ [i \in 1..Len(r_out[1].rows) |-> r_out[1].rows[i].player_id]
              = RetainedIds(r_gw_json.elements)

\* the payload holds an identified entry whose entity the metadata lacks or
\* whose record has no display name, first name, second name, group or category
EntityIncomplete(e) ==
    LET ident == IF e.id # None THEN e.id ELSE e.element
    IN  /\ ident # None
        /\ \/ ident[1] \notin DOMAIN r_bootstrap.elements
           \/ LET m == r_bootstrap.elements[ident[1]]
              IN  \/ m.first_name = None \/ m.second_name = None
                  \/ m.team = None \/ m.element_type = None
NoListStats == \A i \in 1..Len(r_gw_json.elements) : r_gw_json.elements[i].stats.shape # "list"

\* C9 (SpecRecon): reconciling a payload (statistics given as flat mappings)
\* with an identified entry whose entity is absent from the metadata, or lacks
\* names, group or category, does not raise; the row of an entry whose entity
\* is absent is emitted with its statistics and with the entity-derived fields
\* null or empty.
C9_MissingEntityTolerated ==
    (r_pc # "call" /\ NoListStats
       /\ \E i \in 1..Len(r_gw_json.elements) : EntityIncomplete(r_gw_json.elements[i])) =>
        /\ r_out[1].kind = "return"
        /\ \A j \in 1..Len(r_out[1].rows) :
              LET row == r_out[1].rows[j]
              IN  row.player_id[1] \notin DOMAIN r_bootstrap.elements =>
                     /\ row.team_id = None /\ row.team = None
                     /\ row.position_id = None /\ row.position = None
                     /\ row.now_cost = None /\ row.selected_by_percent = None
                     /\ row.player_name \in {None, Some(<<>>), Some(<<" ">>)}

\* a row without its capture timestamp
SansTimestamp(row) == [f \in DOMAIN row \ {"fetched_at"} |-> row[f]]

\* C10 (SpecRecon): whenever the payload with its statistics given as flat
\* mappings reconciles to rows, the same payload with statistics given as
\* {identifier|name, value} lists reconciles to the same rows, capture
\* timestamp aside.
C10_ListAndMappingAgree ==
    (r_pc = "done" /\ r_out[2].kind = "return") =>
        /\ r_out[1].kind = "return"
        /\ Len(r_out[1].rows) = Len(r_out[2].rows)
        /\ \A i \in 1..Len(r_out[1].rows) :
              SansTimestamp(r_out[1].rows[i]) = SansTimestamp(r_out[2].rows[i])

\* the entries of a payload that yield a row, in payload order
RECURSIVE RowEntries(_)
RowEntries(elements) ==
    IF elements = <<>> THEN <<>>
    ELSE (IF PlayerId(Head(elements)) # None THEN <<Head(elements)>> ELSE <<>>)
         \o RowEntries(Tail(elements))

\* the statistics a raw entry carries under its "stats" key
CarriedStats(e) == IF e.stats.shape = "absent" THEN EmptyDict ELSE e.stats.map

\* the row has every canonical field; a statistic the entry carries has the
\* raw value, a statistic the entry carries nowhere (neither under "stats" nor
\* as a top-level key) has the value 0
RowIsTotal(row, e) ==
    /\ SeqToSet(GW_FIELDS) \subseteq DOMAIN row
    /\ \A f \in StatFieldSet :
          /\ f \in DOMAIN CarriedStats(e) => row[f] = CarriedStats(e)[f]
          /\ (f \notin DOMAIN CarriedStats(e) /\ f \notin DOMAIN e.top) => row[f] = Some(0)

\* C11 (SpecRecon): every row a reconciler returns has every field of
\* GW_FIELDS, whatever subset of statistics the raw entry carries; a statistic
\* absent from the raw entry is 0 in the row and a statistic present in the raw
\* entry has the raw value.
C11_RowsAreTotal ==
    (r_pc # "call" /\ r_out[1].kind = "return") =>
        LET es == RowEntries(r_gw_json.elements)
            rows == r_out[1].rows
        IN  /\ Len(rows) = Len(es)
            /\ \A i \in 1..Len(rows) : RowIsTotal(rows[i], es[i])

\* the waits performed so far are 1, 2, 4, ...: one per failed attempt, the
\* k-th of them 2^(k-1), hence strictly increasing
WaitsDouble ==
    /\ Len(slept) = Cardinality({k \in 1..Len(issued) : issued[k] \in FailureKinds})
    /\ \A k \in 1..Len(slept) : slept[k] = IF k = 1 THEN 1 ELSE 2 * slept[k - 1]
    /\ \A k \in 1..(Len(slept) - 1) : slept[k] < slept[k + 1]

\* C12 (SpecHttp): the wait after the k-th failed attempt of http_get is
\* 2^(k-1), the waits of a call are strictly increasing, and every wait is
\* followed by another request: when the call has ended, each wait k was
\* followed by request k+1, and no wait followed a successful attempt.
C12_WaitsPrecedeAttempts ==
    /\ WaitsDouble
    /\ h_pc = "done" =>
          /\ \A k \in 1..Len(slept) : k + 1 <= Len(issued)
          /\ \A k \in 1..Len(issued) : issued[k] = "ok" => Len(slept) < k

\* how often x occurs in the sequence s
Occurrences(s, x) == Cardinality({i \in 1..Len(s) : s[i] = x})

\* the period identifiers the events of the reference metadata carry
PresentIds(b) == {b.events[i][1] : i \in {j \in 1..Len(b.events) : b.events[j] # None}}

\* the sequence lo, lo+1, ..., hi (empty when hi < lo)
Ascending(lo, hi) == [i \in 1..(IF hi >= lo THEN hi - lo + 1 ELSE 0) |-> lo + i - 1]

\* a live run has gone through its whole list and returned
LiveRunEnded == source = "Live" /\ pc = "done" /\ run_end = "returned"

\* gameweek25-26.py: the identifiers present, ascending, one fetch per
\* occurrence; 1..38 when there is none
FetchedAsListed ==
    IF PresentIds(bootstrap) = {} THEN attempted = Ascending(1, 38)
    ELSE /\ \A i \in 1..(Len(attempted) - 1) : attempted[i] <= attempted[i + 1]
         /\ \A g \in PresentIds(bootstrap) \cup SeqToSet(attempted) :
               Occurrences(attempted, g) = Occurrences(bootstrap.events, Some(g))

\* gameweek_data.py: the range from max(1, --start) to min(--end, M), M the
\* largest identifier listed (an event without identifier counting as 0, and
\* 38 when no event is listed)
FetchedAsRange ==
    LET ids == PresentIds(bootstrap) \cup (IF \E i \in 1..Len(bootstrap.events) :
                                                 bootstrap.events[i] = None
                                           THEN {0} ELSE {})
        M == IF ids = {} THEN 38 ELSE CHOOSE m \in ids : \A x \in ids : x <= m
        lo == IF args.start >= 1 THEN args.start ELSE 1
        hi == IF args.end <= M THEN args.end ELSE M
    IN  attempted = Ascending(lo, hi)

\* C13 as amended (SpecRun): on the live path neither script aborts in the
\* loop; gameweek25-26.py fetches the integer period identifiers present in the
\* reference metadata in ascending order, once per occurrence in the events
\* list, and exactly 1..38 when there is none; gameweek_data.py fetches the
\* contiguous range max(1, start)..min(end, M), M the largest identifier listed
\* (38 when no event is listed), whether or not each period is listed.
C13_PeriodsFetched ==
    /\ source = "Live" => run_end # "raised"
    /\ LiveRunEnded =>
          /\ script = "gameweek25-26.py" => FetchedAsListed
          /\ script = "gameweek_data.py" => FetchedAsRange

\* gameweek25-26.py has fetched periods 1 and 3, listed as 3 then 1
C13_Witness ==
    /\ script = "gameweek25-26.py" /\ LiveRunEnded
    /\ bootstrap.events = <<Some(3), Some(1)>>
    /\ attempted = <<1, 3>>

\* C13 as stated: the periods fetched are the sorted set of the identifiers
\* present, each distinct identifier once, ascending, and nothing else; 1..38
\* when there is none, and the run does not abort.
C13_PeriodsAsStated ==
    /\ source = "Live" => run_end # "raised"
    /\ LiveRunEnded =>
          IF PresentIds(bootstrap) = {} THEN attempted = Ascending(1, 38)
          ELSE /\ SeqToSet(attempted) = PresentIds(bootstrap)
               /\ \A i \in 1..(Len(attempted) - 1) : attempted[i] < attempted[i + 1]

====
